---- MODULE Spec2Model ----
(***************************************************************************)
(* Model of the note store of src-tauri/src/lib.rs: the in-memory          *)
(* Vec<Note> behind AppState.notes (a Mutex), the notes.json file, and the *)
(* eight tauri commands.  A command is split at the points where another   *)
(* thread or a process exit can intervene: blocked on lock(), the body run *)
(* under the guard, save_notes, and the return that drops the guard.       *)
(***************************************************************************)
EXTENDS Integers, Sequences, FiniteSets, TLC

\* ---------------------------------------------------------------- bounds
MaxIds == 2
MaxTime == 1
MaxOps == 3
NumCallers == 2

Callers == 1..NumCallers
Ids == 1..MaxIds
Times == 0..MaxTime

\* now_unix(): seconds of the wall clock since the epoch, 0 for a clock set
\* before it.  SystemTime is not monotonic: any value may follow any other.
now_unix == Times
Contents == {"Hello"}
Lists == {"Work", "Archive"}

\* notes     the Vec<Note> inside AppState.notes
\* file      the contents of notes.json
\* lock      the caller holding the Mutex guard, 0 when it is free
\* pc        where each caller is in its command
\* cur       the command running under the guard: arguments, cloned note, result
\* nextId    the number of ids Uuid::new_v4 has handed out, plus one
\* ops       how many commands have been invoked so far
\* lastSave  the latest save_notes call of this run of the process: its
\*           outcome and the collection it was handed
VARIABLES notes, file, lock, pc, cur, nextId, ops, lastSave

vars == <<notes, file, lock, pc, cur, nextId, ops, lastSave>>

\* ------------------------------------------------------------ data model
\* Option<u64>: <<>> is None, <<t>> is Some(t).
None == <<>>

Some(t) == <<t>>

default_list == "My Notes"

Note(id, content, created_at, updated_at, pinned, list, deleted, deleted_at) ==
    [id |-> id, content |-> content, created_at |-> created_at,
     updated_at |-> updated_at, pinned |-> pinned, list |-> list,
     deleted |-> deleted, deleted_at |-> deleted_at]

\* Variant of Find that falls back on the first note when nothing matches.
Find_OrFirst(ns, id) ==
    IF \E i \in 1..Len(ns) : ns[i].id = id
    THEN CHOOSE i \in 1..Len(ns) :
            /\ ns[i].id = id
            /\ \A j \in 1..(i - 1) : ns[j].id # id
    ELSE IF Len(ns) > 0 THEN 1 ELSE 0

\* notes.iter_mut().find(|n| n.id == id): index of the first match, 0 if none.
Find(ns, id) ==
    IF \E i \in 1..Len(ns) : ns[i].id = id
    THEN CHOOSE i \in 1..Len(ns) :
            /\ ns[i].id = id
            /\ \A j \in 1..(i - 1) : ns[j].id # id
    ELSE 0

\* ----------------------------------------------------------- persistence
\* A JSON value of the file: null, a number, a string or a boolean.
JNull == <<"null">>

JNum(n) == <<"num", n>>

JStr(s) == <<"str", s>>

JBool(b) == <<"bool", b>>

\* Variant of OptToJson that writes None as the number 0.
OptToJson_ZeroForNone(o) == IF o = None THEN JNum(0) ELSE JNum(o[1])

\* Serialize for Option<u64>: None is written as null.
OptToJson(o) == IF o = None THEN JNull ELSE JNum(o[1])

\* #[derive(Serialize)] for Note: one JSON object with all eight fields.
NoteToJson(n) ==
    [id |-> JStr(n.id), content |-> JStr(n.content),
     created_at |-> JNum(n.created_at), updated_at |-> JNum(n.updated_at),
     pinned |-> JBool(n.pinned), list |-> JStr(n.list),
     deleted |-> JBool(n.deleted), deleted_at |-> OptToJson(n.deleted_at)]

\* Variant of to_string_pretty that writes live notes only.
to_string_pretty_SkipDeleted(ns) ==
    LET live == SelectSeq(ns, LAMBDA n : ~n.deleted)
    IN  [i \in 1..Len(live) |-> NoteToJson(live[i])]

\* serde_json::to_string_pretty(notes): a JSON array, one object per note.
to_string_pretty(ns) == [i \in 1..Len(ns) |-> NoteToJson(ns[i])]

IsTag(o, f, tag) == f \in DOMAIN o /\ o[f][1] = tag

\* Does a JSON object deserialize into a Note?  id, content, created_at and
\* updated_at are required; pinned, list and deleted have serde defaults;
\* a missing or null deleted_at is None.
NoteParses(o) ==
    /\ IsTag(o, "id", "str")
    /\ IsTag(o, "content", "str")
    /\ IsTag(o, "created_at", "num")
    /\ IsTag(o, "updated_at", "num")
    /\ "pinned" \in DOMAIN o => o.pinned[1] = "bool"
    /\ "list" \in DOMAIN o => o.list[1] = "str"
    /\ "deleted" \in DOMAIN o => o.deleted[1] = "bool"
    /\ "deleted_at" \in DOMAIN o => o.deleted_at[1] \in {"null", "num"}

\* #[derive(Deserialize)] for Note.
NoteFromJson(o) ==
    Note(o.id[2], o.content[2], o.created_at[2], o.updated_at[2],
         IF "pinned" \in DOMAIN o THEN o.pinned[2] ELSE FALSE,
         IF "list" \in DOMAIN o THEN o.list[2] ELSE default_list,
         IF "deleted" \in DOMAIN o THEN o.deleted[2] ELSE FALSE,
         IF "deleted_at" \in DOMAIN o /\ o.deleted_at[1] = "num"
         THEN Some(o.deleted_at[2]) ELSE None)

\* The file: absent, unparsable bytes, or a JSON array of objects.
AbsentFile == [state |-> "absent", json |-> <<>>]

CorruptFile == [state |-> "corrupt", json |-> <<>>]

JsonFile(js) == [state |-> "json", json |-> js]

\* Variant of load_notes that keeps the objects that do parse.
load_notes_SkipBad(f) ==
    IF f.state = "json"
    THEN LET good == SelectSeq(f.json, NoteParses)
         IN  [i \in 1..Len(good) |-> NoteFromJson(good[i])]
    ELSE <<>>

\* load_notes: any read or parse failure gives the empty Vec.
load_notes(f) ==
    IF f.state = "json" /\ \A i \in 1..Len(f.json) : NoteParses(f.json[i])
    THEN [i \in 1..Len(f.json) |-> NoteFromJson(f.json[i])]
    ELSE <<>>

\* What fs::write leaves behind: the new text on success; on failure the old
\* file (open failed) or a truncated, unparsable one (write failed part way).
WriteOutcomes(f, ns) ==
    {[ok |-> TRUE, file |-> JsonFile(to_string_pretty(ns))],
     [ok |-> FALSE, file |-> f],
     [ok |-> FALSE, file |-> CorruptFile]}

\* -------------------------------------------------------------- results
\* Result<T, String>: val holds the Ok payload as a sequence of notes (empty
\* for (), one note for Note, the whole Vec for get_notes).
NoResult == [kind |-> "none", err |-> "", val |-> <<>>]

Ok(v) == [kind |-> "Ok", err |-> "", val |-> v]

Err(e) == [kind |-> "Err", err |-> e, val |-> <<>>]

NotFound == "not found"

IoError == "io"

\* The command under the guard: its name and arguments (unused ones keep a
\* neutral value), the collection it found (before), whether that collection
\* held anything the file did not (unsaved), the note it cloned for its
\* result, the outcome of its save_notes call and its result.
NoCur ==
    [op |-> "none", id |-> 0, content |-> "", pinned |-> FALSE,
     old_list |-> "", new_list |-> "", now |-> 0,
     before |-> <<>>, unsaved |-> FALSE, note |-> <<>>,
     saved |-> "none", res |-> NoResult]

\* A command entering its body.
Begin(op, ns, f) ==
    [NoCur EXCEPT !.op = op, !.before = ns, !.unsaved = (load_notes(f) # ns)]

\* No save_notes call yet in this run of the process.
NoSave == [outcome |-> "none", mem |-> <<>>]

\* ------------------------------------------------ the in-memory mutations
\* create_note: the Note literal.
NewNote(id, list, now) == Note(id, "", now, now, FALSE, list, FALSE, None)

\* Variant of Pushed that puts the new note first.
Pushed_Front(ns, id, list, now) == <<NewNote(id, list, now)>> \o ns

\* create_note: notes.push(note.clone()).
Pushed(ns, id, list, now) == Append(ns, NewNote(id, list, now))

\* update_note: note.content = content; note.updated_at = now_unix().
Edited(n, content, now) == [n EXCEPT !.content = content, !.updated_at = now]

\* Variant of Renamed that also stamps the notes it renames.
Renamed_Touch(ns, old_list, new_list) ==
    [i \in 1..Len(ns) |->
        IF ns[i].list = old_list
        THEN [ns[i] EXCEPT !.list = new_list, !.updated_at = 0]
        ELSE ns[i]]

\* update_note_list: the loop over notes.iter_mut().
Renamed(ns, old_list, new_list) ==
    [i \in 1..Len(ns) |->
        IF ns[i].list = old_list THEN [ns[i] EXCEPT !.list = new_list] ELSE ns[i]]

\* Variant of Pinned that also stamps the note.
Pinned_Touch(n, pinned) == [n EXCEPT !.pinned = pinned, !.updated_at = 0]

\* pin_note: note.pinned = pinned.
Pinned(n, pinned) == [n EXCEPT !.pinned = pinned]

\* Variant of SoftDeleted that empties the note.
SoftDeleted_Wipe(n, now) ==
    [n EXCEPT !.deleted = TRUE, !.deleted_at = Some(now), !.pinned = FALSE,
              !.content = ""]

\* Variant of SoftDeleted that leaves pinned alone.
SoftDeleted_KeepPinned(n, now) ==
    [n EXCEPT !.deleted = TRUE, !.deleted_at = Some(now)]

\* Variant of SoftDeleted that clears pinned only on a note that was active.
SoftDeleted_UnpinIfActive(n, now) ==
    [n EXCEPT !.deleted = TRUE, !.deleted_at = Some(now),
              !.pinned = IF n.deleted THEN n.pinned ELSE FALSE]

\* soft_delete_note: deleted = true, deleted_at = Some(now), pinned = false.
SoftDeleted(n, now) ==
    [n EXCEPT !.deleted = TRUE, !.deleted_at = Some(now), !.pinned = FALSE]

\* Variant of Restored that clears the flag and keeps the stamp.
Restored_KeepStamp(n) == [n EXCEPT !.deleted = FALSE]

\* Variant of Restored that also clears pinned.
Restored_Unpin(n) ==
    [n EXCEPT !.deleted = FALSE, !.deleted_at = None, !.pinned = FALSE]

\* restore_note: deleted = false, deleted_at = None.
Restored(n) == [n EXCEPT !.deleted = FALSE, !.deleted_at = None]

\* Variant of Retained with the predicate inverted.
Retained_Inverted(ns, id) == SelectSeq(ns, LAMBDA n : n.id = id)

\* delete_note: notes.retain(|n| n.id != id).
Retained(ns, id) == SelectSeq(ns, LAMBDA n : n.id # id)

\* Variant of new_v4 that can hand out the previous id again.
new_v4_Repeat(next) == IF next > 1 THEN next - 1 ELSE next

\* Uuid::new_v4(): an id no earlier call returned.
new_v4(next) == next

\* ------------------------------------------------------------------ Init
\* First launch: no notes.json yet, run() loads the empty Vec.
Init ==
    /\ file = AbsentFile
    /\ notes = load_notes(AbsentFile)
    /\ lock = 0
    /\ pc = [c \in Callers |-> "idle"]
    /\ cur = NoCur
    /\ nextId = 1
    /\ ops = 0
    /\ lastSave = NoSave

\* --------------------------------------------------------------- actions
\* The frontend invokes a command; its thread reaches state.notes.lock() and
\* waits there.
Invoke(c) ==
    /\ pc[c] = "idle"
    /\ ops < MaxOps
    /\ ops' = ops + 1
    /\ pc' = [pc EXCEPT ![c] = "lock"]
    /\ UNCHANGED <<notes, file, lock, cur, nextId, lastSave>>

\* Variant of MutexFree that never makes a caller wait.
MutexFree_Always(l) == TRUE

\* Mutex::lock gives the guard only when no other caller holds it.
MutexFree(l) == l = 0

\* state.notes.lock() returns the guard.
Acquire(c) ==
    /\ pc[c] = "lock"
    /\ MutexFree(lock)
    /\ lock' = c
    /\ pc' = [pc EXCEPT ![c] = "locked"]
    /\ UNCHANGED <<notes, file, cur, nextId, ops, lastSave>>

\* A single-note command whose find() gave no note: Err("Note {id} not found")
\* through the ? operator, before any assignment and before save_notes.
Missing(c, op, id) ==
    /\ Find(notes, id) = 0
    /\ cur' = [Begin(op, notes, file) EXCEPT !.id = id, !.res = Err(NotFound)]
    /\ pc' = [pc EXCEPT ![c] = "ret"]
    /\ UNCHANGED <<notes, file, lock, nextId, ops, lastSave>>

\* A single-note command whose find() gave notes[i]: n replaces it, a clone of
\* n is kept for the result, save_notes is next.
Located(c, args, n) ==
    /\ Find(notes, args.id) # 0
    /\ notes' = [notes EXCEPT ![Find(notes, args.id)] = n]
    /\ cur' = [args EXCEPT !.note = <<n>>]
    /\ pc' = [pc EXCEPT ![c] = "save"]
    /\ UNCHANGED <<file, lock, nextId, ops, lastSave>>

\* Variant of get_notes that hands back the live notes only.
get_notes_LiveOnly(c) ==
    /\ pc[c] = "locked"
    /\ cur' = [Begin("get_notes", notes, file) EXCEPT
                  !.res = Ok(SelectSeq(notes, LAMBDA n : ~n.deleted))]
    /\ pc' = [pc EXCEPT ![c] = "ret"]
    /\ UNCHANGED <<notes, file, lock, nextId, ops, lastSave>>

get_notes(c) ==
    /\ pc[c] = "locked"
    /\ cur' = [Begin("get_notes", notes, file) EXCEPT !.res = Ok(notes)]
    /\ pc' = [pc EXCEPT ![c] = "ret"]
    /\ UNCHANGED <<notes, file, lock, nextId, ops, lastSave>>

create_note(c) ==
    /\ pc[c] = "locked"
    /\ nextId <= MaxIds
    /\ \E list \in Lists, now \in now_unix :
        /\ notes' = Pushed(notes, new_v4(nextId), list, now)
        /\ cur' = [Begin("create_note", notes, file) EXCEPT
                      !.id = new_v4(nextId), !.new_list = list, !.now = now,
                      !.note = <<NewNote(new_v4(nextId), list, now)>>]
    /\ nextId' = nextId + 1
    /\ pc' = [pc EXCEPT ![c] = "save"]
    /\ UNCHANGED <<file, lock, ops, lastSave>>

update_note(c) ==
    /\ pc[c] = "locked"
    /\ \E id \in Ids, content \in Contents, now \in now_unix :
        \/ Missing(c, "update_note", id)
        \/ Located(c, [Begin("update_note", notes, file) EXCEPT
                          !.id = id, !.content = content, !.now = now],
                   Edited(notes[Find(notes, id)], content, now))

update_note_list(c) ==
    /\ pc[c] = "locked"
    /\ \E old_list \in Lists, new_list \in Lists :
        /\ notes' = Renamed(notes, old_list, new_list)
        /\ cur' = [Begin("update_note_list", notes, file) EXCEPT
                      !.old_list = old_list, !.new_list = new_list]
    /\ pc' = [pc EXCEPT ![c] = "save"]
    /\ UNCHANGED <<file, lock, nextId, ops, lastSave>>

pin_note(c) ==
    /\ pc[c] = "locked"
    /\ \E id \in Ids, pinned \in BOOLEAN :
        \/ Missing(c, "pin_note", id)
        \/ Located(c, [Begin("pin_note", notes, file) EXCEPT
                          !.id = id, !.pinned = pinned],
                   Pinned(notes[Find(notes, id)], pinned))

soft_delete_note(c) ==
    /\ pc[c] = "locked"
    /\ \E id \in Ids, now \in now_unix :
        \/ Missing(c, "soft_delete_note", id)
        \/ Located(c, [Begin("soft_delete_note", notes, file) EXCEPT
                          !.id = id, !.now = now],
                   SoftDeleted(notes[Find(notes, id)], now))

restore_note(c) ==
    /\ pc[c] = "locked"
    /\ \E id \in Ids :
        \/ Missing(c, "restore_note", id)
        \/ Located(c, [Begin("restore_note", notes, file) EXCEPT !.id = id],
                   Restored(notes[Find(notes, id)]))

delete_note(c) ==
    /\ pc[c] = "locked"
    /\ \E id \in Ids :
        /\ notes' = Retained(notes, id)
        /\ cur' = [Begin("delete_note", notes, file) EXCEPT !.id = id]
    /\ pc' = [pc EXCEPT ![c] = "save"]
    /\ UNCHANGED <<file, lock, nextId, ops, lastSave>>

\* What a command hands back once save_notes has run: Ok(note) or Ok(()) after
\* a good write, the write's error through ? otherwise.
SaveResult(ok, note) == IF ok THEN Ok(note) ELSE Err(IoError)

\* Variant of AfterFailedSave that undoes the command's change.
AfterFailedSave_Rollback(ns, before) == before

\* The collection after a write that failed: left as the command made it.
AfterFailedSave(ns, before) == ns

\* save_notes(&state.file_path, &notes), still under the guard.
save_notes(c) ==
    /\ pc[c] = "save"
    /\ \E w \in WriteOutcomes(file, notes) :
        /\ file' = w.file
        /\ notes' = IF w.ok THEN notes ELSE AfterFailedSave(notes, cur.before)
        /\ cur' = [cur EXCEPT !.saved = IF w.ok THEN "ok" ELSE "failed",
                               !.res = SaveResult(w.ok, cur.note)]
        /\ lastSave' = [outcome |-> IF w.ok THEN "ok" ELSE "failed",
                        mem |-> notes]
    /\ pc' = [pc EXCEPT ![c] = "ret"]
    /\ UNCHANGED <<lock, nextId, ops>>

\* Variant of Return that keeps the guard when the result is an error.
Return_HoldOnError(c) ==
    /\ pc[c] = "ret"
    /\ lock' = IF cur.res.kind = "Err" THEN lock ELSE 0
    /\ cur' = NoCur
    /\ pc' = [pc EXCEPT ![c] = "idle"]
    /\ UNCHANGED <<notes, file, nextId, ops, lastSave>>

\* The command returns cur.res; the MutexGuard is dropped.
Return(c) ==
    /\ pc[c] = "ret"
    /\ lock' = 0
    /\ cur' = NoCur
    /\ pc' = [pc EXCEPT ![c] = "idle"]
    /\ UNCHANGED <<notes, file, nextId, ops, lastSave>>

\* The process exits at any point and is launched again: run() builds a new
\* AppState from load_notes(&file_path); every in-flight command is gone.
Restart ==
    /\ notes' = load_notes(file)
    /\ lock' = 0
    /\ pc' = [c \in Callers |-> "idle"]
    /\ cur' = NoCur
    /\ lastSave' = NoSave
    /\ UNCHANGED <<file, nextId, ops>>

Command(c) ==
    \/ get_notes(c)
    \/ create_note(c)
    \/ update_note(c)
    \/ update_note_list(c)
    \/ pin_note(c)
    \/ soft_delete_note(c)
    \/ restore_note(c)
    \/ delete_note(c)

Step(c) ==
    \/ Invoke(c)
    \/ Acquire(c)
    \/ Command(c)
    \/ save_notes(c)
    \/ Return(c)

Next == (\E c \in Callers : Step(c)) \/ Restart

Spec == Init /\ [][Next]_vars

\* One run of the process, no exit: the commands alone.
LiveNext == \E c \in Callers : Step(c)

\* A step of the thread that holds the guard: its body, its save, its return.
Holder == \E c \in Callers : Command(c) \/ save_notes(c) \/ Return(c)

\* Fair scheduling: the thread that holds the guard keeps running, and a
\* thread that finds the Mutex free again and again gets it.
Fairness == WF_vars(Holder) /\ \A c \in Callers : SF_vars(Acquire(c))

LiveSpec == Init /\ [][LiveNext]_vars /\ Fairness

\* ------------------------------------------------------------ properties
Indices(ns) == 1..Len(ns)

\* A step taken by the holder of the guard inside its command: the body or
\* save_notes.  Acquire, Return and Restart start or end with the guard free.
InCommand == lock # 0 /\ lock' = lock

\* C1: in every reachable state every note of the collection has deleted true
\* if and only if deleted_at holds a timestamp.
C1_DeletedIffDeletedAt ==
    \A i \in Indices(notes) : notes[i].deleted <=> (notes[i].deleted_at # None)

\* C1 witness: restore_note has just run on a soft-deleted note, which is
\* back to deleted = false with no stamp.
C1_Witness ==
    /\ cur.op = "restore_note"
    /\ cur.note # <<>>
    /\ \E i \in Indices(cur.before) :
          /\ cur.before[i].id = cur.id
          /\ cur.before[i].deleted
          /\ cur.before[i].deleted_at # None
    /\ \E i \in Indices(notes) :
          notes[i].id = cur.id /\ ~notes[i].deleted /\ notes[i].deleted_at = None

\* C2 as stated: no note of the collection is both pinned and deleted.
C2_NeverPinnedAndDeleted ==
    \A i \in Indices(notes) : ~(notes[i].pinned /\ notes[i].deleted)

PinnedAndDeleted(ns, id) ==
    \E i \in Indices(ns) : ns[i].id = id /\ ns[i].pinned /\ ns[i].deleted

\* C2 amended: a command makes a note both pinned and deleted only by
\* pin_note(id, true) on a note that is already deleted; soft_delete_note
\* always leaves its note unpinned.
C2_PinnedAndDeletedOnlyByPin ==
    [][InCommand =>
        /\ \A id \in Ids :
             PinnedAndDeleted(notes', id) /\ ~PinnedAndDeleted(notes, id) =>
                /\ cur'.op = "pin_note" /\ cur'.id = id /\ cur'.pinned
                /\ \E i \in Indices(notes) : notes[i].id = id /\ notes[i].deleted
        /\ cur'.op = "soft_delete_note" /\ cur'.note # <<>> =>
             /\ ~cur'.note[1].pinned
             /\ ~PinnedAndDeleted(notes', cur'.id)]_vars

\* C2 witness: pin_note(id, true) has just run on a deleted note, which is
\* now pinned and deleted.
C2_Witness ==
    /\ cur.op = "pin_note"
    /\ cur.pinned
    /\ ~PinnedAndDeleted(cur.before, cur.id)
    /\ PinnedAndDeleted(notes, cur.id)

\* C3: no two notes of the collection share an id.
C3_UniqueIds ==
    \A i, j \in Indices(notes) : notes[i].id = notes[j].id => i = j

\* C3 witness: two create_note calls have put two notes in the collection.
C3_Witness == Len(notes) >= 2 /\ notes[1].id # notes[2].id

MutatingOps ==
    {"create_note", "update_note", "update_note_list", "pin_note",
     "soft_delete_note", "restore_note", "delete_note"}

SingleNoteOps == {"update_note", "pin_note", "soft_delete_note", "restore_note"}

\* Is there a note with this id in ns?
HasId(ns, id) == \E i \in Indices(ns) : ns[i].id = id

\* The note with the given id in ns changed by f; ns itself when there is none.
OnNote(ns, id, f(_)) ==
    [i \in Indices(ns) |-> IF ns[i].id = id THEN f(ns[i]) ELSE ns[i]]

\* The collection a command's arguments ask for, from the collection it found.
Effect(cu) ==
    CASE cu.op = "create_note" ->
            Pushed(cu.before, cu.id, cu.new_list, cu.now)
      [] cu.op = "update_note" ->
            OnNote(cu.before, cu.id, LAMBDA n : Edited(n, cu.content, cu.now))
      [] cu.op = "update_note_list" ->
            Renamed(cu.before, cu.old_list, cu.new_list)
      [] cu.op = "pin_note" ->
            OnNote(cu.before, cu.id, LAMBDA n : Pinned(n, cu.pinned))
      [] cu.op = "soft_delete_note" ->
            OnNote(cu.before, cu.id, LAMBDA n : SoftDeleted(n, cu.now))
      [] cu.op = "restore_note" ->
            OnNote(cu.before, cu.id, LAMBDA n : Restored(n))
      [] cu.op = "delete_note" ->
            Retained(cu.before, cu.id)
      [] OTHER -> cu.before

\* C4: when the save step of a mutating command fails, the command returns an
\* error, the collection keeps the command's change, and a list query that
\* follows (no save attempt in between) returns that changed collection.
C4_SaveFailureKeepsMutation ==
    /\ cur.saved = "failed" =>
          /\ cur.op \in MutatingOps
          /\ cur.res = Err(IoError)
          /\ notes = Effect(cur)
          /\ lastSave = [outcome |-> "failed", mem |-> Effect(cur)]
    /\ cur.op = "get_notes" /\ lastSave.outcome = "failed" =>
          cur.res = Ok(lastSave.mem)

\* C4 witness: a list query answers after a failed save whose change differs
\* from what the file holds and from what the failed command found.
C4_Witness ==
    /\ cur.op = "get_notes"
    /\ lastSave.outcome = "failed"
    /\ cur.res = Ok(lastSave.mem)
    /\ lastSave.mem # load_notes(file)
    /\ lastSave.mem # <<>>

\* C5: after every successful save the file holds exactly the whole
\* collection, and at rest with the latest save attempt successful the file
\* equals the collection.
C5_FileEqualsMemoryAfterSave ==
    /\ cur.saved = "ok" =>
          /\ file = JsonFile(to_string_pretty(notes))
          /\ load_notes(file) = notes
    /\ lock = 0 /\ lastSave.outcome = "ok" =>
          /\ file = JsonFile(to_string_pretty(notes))
          /\ load_notes(file) = notes

\* C5 witness: a save has succeeded for a command that found the collection
\* ahead of the file (an earlier save had failed), with a deleted note in it.
C5_Witness ==
    /\ cur.saved = "ok"
    /\ cur.unsaved
    /\ cur.before # <<>>
    /\ \E i \in Indices(notes) : notes[i].deleted
    /\ file = JsonFile(to_string_pretty(notes))

\* C6: at most one caller is between acquiring the guard and returning; only
\* that caller's command changes the collection or the file; its write is of
\* the collection exactly as its own change left it.
C6_MutualExclusion ==
    /\ [](/\ Cardinality({c \in Callers : pc[c] \in {"locked", "save", "ret"}}) <= 1
          /\ \A c \in Callers : pc[c] \in {"locked", "save", "ret"} <=> lock = c
          /\ \A c \in Callers : pc[c] = "save" => notes = Effect(cur)
          /\ cur.saved = "ok" => file = JsonFile(to_string_pretty(Effect(cur))))
    /\ [][(notes' # notes \/ file' # file) /\ ~Restart =>
            /\ InCommand
            /\ pc[lock] \in {"locked", "save"}
            /\ \A c \in Callers \ {lock} : pc'[c] = pc[c]]_vars

\* C6 witness: one caller is about to write while the other waits in lock().
C6_Witness ==
    /\ \E c \in Callers : pc[c] = "save" /\ cur.op \in MutatingOps
    /\ \E c \in Callers : pc[c] = "lock"
    /\ notes # cur.before

\* C7: update_note, pin_note, soft_delete_note and restore_note with an id that
\* is not in the collection return "not found", change neither the collection
\* nor the file and attempt no save; with an id that is there they go on to
\* save_notes.
C7_NotFoundChangesNothing ==
    [][cur.op = "none" /\ cur'.op \in SingleNoteOps =>
        IF ~HasId(notes, cur'.id)
        THEN /\ cur'.res = Err(NotFound)
             /\ cur'.saved = "none"
             /\ pc'[lock] = "ret"
             /\ UNCHANGED <<notes, file, lastSave>>
        ELSE /\ cur'.res = NoResult
             /\ pc'[lock] = "save"]_vars

\* C7 witness: a single-note command has answered "not found" on a collection
\* that holds another note.
C7_Witness ==
    /\ cur.op \in SingleNoteOps
    /\ cur.res = Err(NotFound)
    /\ notes # <<>>
    /\ notes = cur.before

\* C8: delete_note with an absent id and update_note_list with an unused old
\* label leave the collection unchanged, go on to save_notes and never answer
\* "not found"; either command applied twice gives what it gives applied once.
C8_AbsentIsNoOp ==
    /\ [](/\ cur.op \in {"delete_note", "update_note_list"} =>
               /\ cur.res.err # NotFound
               /\ cur.saved = "ok" => cur.res = Ok(<<>>)
          /\ \A id \in Ids :
               /\ ~HasId(notes, id) => Retained(notes, id) = notes
               /\ Retained(Retained(notes, id), id) = Retained(notes, id)
          /\ \A a \in Lists, b \in Lists :
               /\ (\A i \in Indices(notes) : notes[i].list # a) =>
                     Renamed(notes, a, b) = notes
               /\ Renamed(Renamed(notes, a, b), a, b) = Renamed(notes, a, b))
    /\ [][/\ cur.op = "none" /\ cur'.op = "delete_note"
                /\ ~HasId(notes, cur'.id) =>
                   notes' = notes /\ pc'[lock] = "save"
          /\ cur.op = "none" /\ cur'.op = "update_note_list"
                /\ (\A i \in Indices(notes) : notes[i].list # cur'.old_list) =>
                   notes' = notes /\ pc'[lock] = "save"]_vars

\* C8 witness: delete_note with an absent id has returned Ok(()) on a
\* collection that holds a note.
C8_Witness ==
    /\ cur.op = "delete_note"
    /\ ~HasId(cur.before, cur.id)
    /\ cur.before # <<>>
    /\ notes = cur.before
    /\ cur.res = Ok(<<>>)

\* C9: every note of the collection has created_at <= updated_at.
C9_CreatedLeUpdated ==
    \A i \in Indices(notes) : notes[i].created_at <= notes[i].updated_at

\* C10: no command leaves the updated_at of a note lower than it found it.
C10_UpdatedAtNeverDecreases ==
    [][InCommand =>
        \A i \in Indices(notes), j \in Indices(notes') :
            notes[i].id = notes'[j].id =>
                notes[i].updated_at <= notes'[j].updated_at]_vars


\* The note with this id in ns, as a sequence: empty when there is none.
WithId(ns, id) == SelectSeq(ns, LAMBDA n : n.id = id)

\* C11: soft_delete_note on a note of the collection, whatever its pinned and
\* deleted were, leaves it with pinned false, deleted true and deleted_at
\* present, in the collection and in the note handed back; the same holds of
\* the note's update for each of the four pinned/deleted states before it.
C11_SoftDeleteUnpins ==
    cur.op = "soft_delete_note" /\ HasId(cur.before, cur.id) =>
        /\ Len(WithId(notes, cur.id)) = 1
        /\ ~WithId(notes, cur.id)[1].pinned
        /\ WithId(notes, cur.id)[1].deleted
        /\ WithId(notes, cur.id)[1].deleted_at = Some(cur.now)
        /\ cur.note = WithId(notes, cur.id)
        /\ cur.saved = "ok" => cur.res = Ok(WithId(notes, cur.id))
        /\ \A i \in Indices(notes), p \in BOOLEAN, d \in BOOLEAN :
              LET n == [notes[i] EXCEPT !.pinned = p, !.deleted = d]
                  m == SoftDeleted(n, cur.now)
              IN  ~m.pinned /\ m.deleted /\ m.deleted_at = Some(cur.now)

\* C11 witness: soft_delete_note has returned Ok for a note that was pinned.
C11_Witness ==
    /\ cur.op = "soft_delete_note"
    /\ cur.saved = "ok"
    /\ Len(WithId(cur.before, cur.id)) = 1
    /\ WithId(cur.before, cur.id)[1].pinned
    /\ ~cur.res.val[1].pinned
    /\ cur.res.val[1].deleted

\* C12: restore_note on a note that is active does not answer "not found" and
\* changes nothing: the collection and the note handed back are what they
\* were before the call.
C12_RestoreActiveIsNoOp ==
    /\ cur.op = "restore_note"
    /\ HasId(cur.before, cur.id)
    /\ ~WithId(cur.before, cur.id)[1].deleted
    => /\ cur.res.err # NotFound
       /\ notes = cur.before
       /\ cur.note = WithId(cur.before, cur.id)
       /\ cur.saved = "ok" => cur.res = Ok(WithId(cur.before, cur.id))

\* C12 witness: restore_note has returned Ok for an active, pinned note.
C12_Witness ==
    /\ cur.op = "restore_note"
    /\ cur.saved = "ok"
    /\ Len(WithId(cur.before, cur.id)) = 1
    /\ ~WithId(cur.before, cur.id)[1].deleted
    /\ WithId(cur.before, cur.id)[1].pinned
    /\ cur.res = Ok(WithId(cur.before, cur.id))


\* C13: saving a collection and loading the file gives the same collection,
\* note for note and field for field, in the same order; a restart after a
\* successful save starts from exactly the collection that save was handed.
C13_RoundTrip ==
    /\ [](/\ load_notes(JsonFile(to_string_pretty(notes))) = notes
          /\ lastSave.outcome = "ok" => load_notes(file) = lastSave.mem)
    /\ [][Restart /\ lastSave.outcome = "ok" => notes' = lastSave.mem]_vars

\* C13 witness: the process has restarted from a file that holds an active
\* note and a soft-deleted one.
C13_Witness ==
    /\ lastSave = NoSave
    /\ lock = 0
    /\ file.state = "json"
    /\ notes = load_notes(file)
    /\ \E i \in Indices(notes) : notes[i].deleted /\ notes[i].deleted_at # None
    /\ \E i \in Indices(notes) : ~notes[i].deleted /\ notes[i].deleted_at = None

\* A JSON object without its id member.
WithoutId(o) == [k \in DOMAIN o \ {"id"} |-> o[k]]

\* The file with the id member struck from its first object.
Damaged(f) ==
    JsonFile([i \in 1..Len(f.json) |->
                 IF i = 1 THEN WithoutId(f.json[i]) ELSE f.json[i]])

\* C14: load_notes gives the empty collection for a file that is absent,
\* unreadable or does not parse as a whole, and a start from such a file
\* gives an idle store with an empty collection.
C14_LoadNeverFails ==
    /\ [](/\ load_notes(AbsentFile) = <<>>
          /\ load_notes(CorruptFile) = <<>>
          /\ file.state = "json" /\ Len(file.json) > 0 =>
                load_notes(Damaged(file)) = <<>>)
    /\ [][Restart =>
            /\ file.state # "json" => notes' = <<>>
            /\ lock' = 0
            /\ cur' = NoCur
            /\ \A c \in Callers : pc'[c] = "idle"]_vars

\* C14 witness: the process has restarted from a file that a failed write left
\* unparsable, after commands had filled the collection.
C14_Witness ==
    /\ file.state = "corrupt"
    /\ lastSave = NoSave
    /\ notes = <<>>
    /\ lock = 0
    /\ nextId > 1


\* The body of a command of this name runs in this step.
Runs(op) == cur.op = "none" /\ cur'.op = op

\* C15: update_note_list(A, B) sets list to B on exactly the notes whose list
\* is A and changes no other field of any note, nor the number or order of
\* the notes.
C15_RenameTouchesOnlyList ==
    [][Runs("update_note_list") =>
        /\ Len(notes') = Len(notes)
        /\ \A i \in Indices(notes) :
            /\ notes'[i].list =
                  IF notes[i].list = cur'.old_list THEN cur'.new_list
                  ELSE notes[i].list
            /\ [notes'[i] EXCEPT !.list = notes[i].list] = notes[i]]_vars

\* C15 witness: a rename has just changed one note and left another, of a
\* different label, as it was.
C15_Witness ==
    /\ cur.op = "update_note_list"
    /\ cur.old_list # cur.new_list
    /\ \E i \in Indices(cur.before) :
          cur.before[i].list = cur.old_list /\ notes[i].list = cur.new_list
    /\ \E i \in Indices(cur.before) :
          cur.before[i].list # cur.old_list /\ notes[i] = cur.before[i]

\* C16: soft_delete_note followed by restore_note on the same note leaves it
\* with deleted false, no deleted_at, and the id and content it had before
\* the soft delete.  Stated of the two updates in sequence on every note of
\* the collection, and of each command's own step.
C16_SoftDeleteThenRestore ==
    /\ [](\A i \in Indices(notes), now \in now_unix :
            LET r == Restored(SoftDeleted(notes[i], now))
            IN  /\ ~r.deleted
                /\ r.deleted_at = None
                /\ r.id = notes[i].id
                /\ r.content = notes[i].content)
    /\ [][Runs("soft_delete_note") \/ Runs("restore_note") =>
            /\ Len(notes') = Len(notes)
            /\ \A i \in Indices(notes) :
                /\ notes'[i].id = notes[i].id
                /\ notes'[i].content = notes[i].content
                /\ Runs("restore_note") /\ notes[i].id = cur'.id =>
                      ~notes'[i].deleted /\ notes'[i].deleted_at = None
                /\ Runs("soft_delete_note") /\ notes[i].id = cur'.id =>
                      notes'[i].deleted /\ notes'[i].deleted_at # None]_vars

\* C16 witness: restore_note has returned Ok for a soft-deleted note.
C16_Witness ==
    /\ cur.op = "restore_note"
    /\ cur.saved = "ok"
    /\ Len(WithId(cur.before, cur.id)) = 1
    /\ WithId(cur.before, cur.id)[1].deleted
    /\ WithId(cur.before, cur.id)[1].deleted_at # None
    /\ ~cur.res.val[1].deleted
    /\ cur.res.val[1].deleted_at = None
    /\ cur.res.val[1].content = WithId(cur.before, cur.id)[1].content

\* The ids of a collection, in its order.
IdsOf(ns) == [i \in Indices(ns) |-> ns[i].id]

C18_ListIsConsistentSnapshot ==
    /\ [](cur.op = "get_notes" =>
            /\ cur.res = Ok(notes)
            /\ notes = cur.before
            /\ cur.saved = "none")
    /\ [][Runs("get_notes") =>
            /\ UNCHANGED <<notes, file, lastSave>>
            /\ cur'.res = Ok(notes)
            /\ \A c \in Callers \ {lock} : pc[c] \in {"idle", "lock"}]_vars

\* C18 witness: get_notes has its snapshot of a collection that holds a note,
\* while another caller waits in lock().
C18_Witness ==
    /\ cur.op = "get_notes"
    /\ cur.res.kind = "Ok"
    /\ cur.res.val # <<>>
    /\ cur.res.val = notes
    /\ \E c \in Callers : pc[c] = "lock"

\* C19: under fair scheduling every caller is again and again idle without
\* the guard, and the guard is again and again free: since a caller leaves
\* lock() only with the guard and leaves its command only by returning, a
\* caller waiting in lock() gets the guard, and every command returns and
\* frees it whatever its result (success, "not found", failed save).
C19_EveryCommandCompletes ==
    /\ \A c \in Callers : []<>(pc[c] = "idle" /\ lock # c)
    /\ []<>(lock = 0)
    /\ [][\A c \in Callers :
            /\ pc[c] = "lock" /\ pc'[c] # "lock" =>
                  pc'[c] = "locked" /\ lock' = c
            /\ pc[c] # "idle" /\ pc'[c] = "idle" => pc[c] = "ret"]_vars

\* C19 witness: a command is about to return a save error while another
\* caller waits in lock().
C19_Witness ==
    /\ \E c \in Callers : pc[c] = "ret" /\ cur.res.err = IoError
    /\ \E c \in Callers : pc[c] = "lock"

\* C20: no command changes the id or created_at of a note; content and
\* updated_at change only by update_note on that note's id; a single-note
\* command leaves every note of another id as it was.
C20_Frame ==
    [][InCommand =>
        /\ ~Runs("delete_note") =>
              /\ Len(notes') >= Len(notes)
              /\ \A i \in Indices(notes) : notes'[i].id = notes[i].id
        /\ \A i \in Indices(notes), j \in Indices(notes') :
              notes[i].id = notes'[j].id =>
                /\ notes'[j].created_at = notes[i].created_at
                /\ notes'[j].content # notes[i].content
                     \/ notes'[j].updated_at # notes[i].updated_at
                   => Runs("update_note") /\ cur'.id = notes[i].id
                /\ cur'.op \in SingleNoteOps /\ cur'.id # notes[i].id
                   => i = j /\ notes'[j] = notes[i]]_vars

\* C20 witness: pin_note has changed one of two notes and left the other.
C20_Witness ==
    /\ cur.op = "pin_note"
    /\ Len(cur.before) = 2
    /\ notes # cur.before
    /\ \E i \in Indices(notes) :
          notes[i].id # cur.id /\ notes[i] = cur.before[i]

====
